---- MODULE Spec2Model ----
(***************************************************************************)
(* Model of find-text-in-gitlab-repos (src/unnamed/part_001, lines 1-282): *)
(* the main loop over the projects, the reference retry loop, the          *)
(* streaming tar extraction with its entry / finish events, the per-file   *)
(* line search searchInSourceCode, and the result report.                  *)
(*                                                                         *)
(* Text is modelled as sequences of one-character strings, so that         *)
(* String.prototype.includes is a real contiguous-substring test.          *)
(* Every line of a file reaches readline as a chunk of its own.            *)
(***************************************************************************)
EXTENDS Integers, Sequences, FiniteSets, TLC

\* ---------------------------------------------------------------- bounds
MaxLines == 5        \* lines per file in the search specification
MaxTargets == 2      \* search strings on the command line
MaxProjects == 2     \* projects in the project list
MaxGroups == 3       \* groups in the group tree, the root included

\* ---------------------------------------------------------------- text
Alpha == <<"a">>
Beta == <<"b">>
AlphaBeta == <<"a", "b">>

Targets == {Alpha, Beta, AlphaBeta}

LineValues == {<<"x">>, <<"a">>, <<"b">>, <<"a", "b">>, <<"b", "a">>}

SeqsUpTo(S, n) == UNION {[1..k -> S] : k \in 0..n}

\* program.args: an ordered set of literal strings
TargetLists ==
  {s \in SeqsUpTo(Targets, MaxTargets) :
     \A i, j \in 1..Len(s) : i # j => s[i] # s[j]}

Files == SeqsUpTo(LineValues, MaxLines)

\* line.includes(oneSearchText)
Includes(line, text) ==
  \E i \in 0..(Len(line) - Len(text)) :
     SubSeq(line, i + 1, i + Len(text)) = text

Range(s) == {s[i] : i \in 1..Len(s)}

RECURSIVE Flatten(_)
Flatten(ss) ==
  IF ss = <<>> THEN <<>> ELSE Head(ss) \o Flatten(Tail(ss))

\* ---------------------------------------------------------------- state
VARIABLES
  searchText,        \* program.args
  projects,          \* the project list (ids)
  projIdx,           \* position of the for-of loop over projects
  pc,                \* where the main async function is suspended
  refIdx,            \* position of the for-of loop over options.ref
  found,             \* the main loop's found flag
  archivedRepoResp,  \* the response being extracted: its ref and archive
  tarExtractor,      \* the tar-stream extractor of the current project
  searchPromises,    \* the search operations launched for this project
  finishPromise,     \* TRUE once finishPromiseResolver has been called
  log,               \* requests, delays and diagnostic log records, in order
  resultLog,         \* the lines written to resultLogger, in order
  world,             \* the groups and listings the hosting API serves
  stack,             \* the active calls of fetchAllProjectRecursive
  listLog,           \* listing requests and enumeration returns, in order
  cacheFile,         \* the content of projects.json
  cacheWrites        \* how often projects.json has been written

mainVars == <<searchText, projects, projIdx, pc, refIdx, found,
              archivedRepoResp, tarExtractor, searchPromises, finishPromise,
              log, resultLog>>

enumVars == <<world, stack, listLog, cacheFile, cacheWrites>>

vars == <<searchText, projects, projIdx, pc, refIdx, found, archivedRepoResp,
          tarExtractor, searchPromises, finishPromise, log, resultLog,
          world, stack, listLog, cacheFile, cacheWrites>>

\* options.ref
Refs == <<"main", "master">>

NoResp == [ref |-> "none", archive |-> <<>>]

\* ------------------------------------------------- searchInSourceCode
\* the records one line pushes: searchText.forEach in order
LineHits(name, line, texts) ==
  LET hit == SelectSeq(texts, LAMBDA t : Includes(line, t))
  IN  [i \in 1..Len(hit) |-> [name |-> name, text |-> hit[i]]]

\* foundNum++ once per push
CountHits(foundNum, hits) == foundNum + Len(hits)

\* if (foundNum === searchText.length) rl.close()
ShouldClose(foundNum, texts) == foundNum = Len(texts)

\* new Promise(...): found = [], foundNum = 0, readline attached
NewSearch(header) ==
  [name |-> header.name, lines |-> header.lines, pos |-> 0,
   found |-> <<>>, foundNum |-> 0, rlClosed |-> FALSE,
   tested |-> {}, state |-> "pending", value |-> <<>>]

Cur == searchPromises[Len(searchPromises)]

FileOpen ==
  /\ pc = "pipeline"
  /\ tarExtractor.state = "running"
  /\ tarExtractor.open = "file"

\* rl.on('line'): the next line of the open file reaches the handler
OnLine ==
  /\ FileOpen
  /\ ~Cur.rlClosed
  /\ Cur.pos < Len(Cur.lines)
  /\ LET n == Len(searchPromises)
         line == Cur.lines[Cur.pos + 1]
         hits == LineHits(Cur.name, line, searchText)
         num == CountHits(Cur.foundNum, hits)
     IN  searchPromises' =
           [searchPromises EXCEPT
              ![n].pos = @ + 1,
              ![n].tested = @ \cup {Cur.pos + 1},
              ![n].found = @ \o hits,
              ![n].foundNum = num,
              ![n].rlClosed = ShouldClose(num, searchText)]
  /\ UNCHANGED <<searchText, projects, projIdx, pc, refIdx, found,
                 archivedRepoResp, tarExtractor, finishPromise, log,
                 resultLog>>
  /\ UNCHANGED enumVars

NoResume(s) == s

\* fileStream.resume(): the stream flows again with no data listener, the
\* rest of the entry is read and discarded
Resume(s) == [s EXCEPT !.pos = Len(s.lines)]

\* rl.on('close') -> fileStream.resume(): the rest of the entry is drained
\* with no line listener
OnClose ==
  /\ FileOpen
  /\ Cur.rlClosed
  /\ Cur.pos < Len(Cur.lines)
  /\ searchPromises' =
       [searchPromises EXCEPT ![Len(searchPromises)] = Resume(Cur)]
  /\ UNCHANGED <<searchText, projects, projIdx, pc, refIdx, found,
                 archivedRepoResp, tarExtractor, finishPromise, log,
                 resultLog>>
  /\ UNCHANGED enumVars

\* the content stream of the open entry emits 'end'
StreamEnded(t) == [t EXCEPT !.open = "none", !.ended = @ + 1]

NoAdvance(t) == t

\* next(): the extractor may yield the following entry
Advance(t) == [t EXCEPT !.next = @ + 1, !.advances = Append(@, t.next)]

ResolveEmpty(f) == <<>>

\* resolve(found)
ResolveValue(f) == f

ResolveNot(s, v) == [s EXCEPT !.rlClosed = TRUE]

\* resolve(...) in the 'end' handler: the input has ended, so the line
\* reader is closed, and the promise is fulfilled with the value
Resolve(s, v) ==
  [s EXCEPT !.state = "fulfilled", !.rlClosed = TRUE, !.value = v]

\* fileStream.on('end'): next(); resolve(found)
OnEnd ==
  /\ FileOpen
  /\ Cur.pos = Len(Cur.lines)
  /\ searchPromises' =
       [searchPromises EXCEPT
          ![Len(searchPromises)] = Resolve(Cur, ResolveValue(Cur.found))]
  /\ tarExtractor' = Advance(StreamEnded(tarExtractor))
  /\ UNCHANGED <<searchText, projects, projIdx, pc, refIdx, found,
                 archivedRepoResp, finishPromise, log, resultLog>>
  /\ UNCHANGED enumVars

\* ------------------------------------------------- archives
File(name, lines) == [type |-> "file", name |-> name, lines |-> lines]
Other(type, name) == [type |-> type, name |-> name, lines |-> <<>>]

\* the archives the download endpoint serves
Archives ==
  { <<>>,
    <<File("f1", <<<<"x">>>>)>>,
    <<Other("directory", "d"), File("f1", <<<<"a">>, <<"a", "b">>>>),
      File("f2", <<<<"b">>>>)>>,
    <<File("f1", <<<<"b", "a">>>>), Other("symlink", "s")>> }

\* ------------------------------------------------- log records
Rec(kind, project, ref) == [kind |-> kind, project |-> project, ref |-> ref]

\* await setTimeout(15000) after a failed reference (line 223)
RetryDelay(project) == <<Rec("delay", project, "")>>

NoDelay(project) == <<>>

\* await setTimeout(15000) after a processed project (line 280)
ProjectDelay(project) == <<Rec("delay", project, "")>>

Line(kind, project, name, text) ==
  [kind |-> kind, project |-> project, name |-> name, text |-> text]

\* the same loop without foundOne = true
RECURSIVE EachOneResultNoFlag(_, _, _)
EachOneResultNoFlag(project, fileResult, acc) ==
  IF fileResult = <<>> THEN acc
  ELSE LET oneResult == Head(fileResult)
           header == IF acc.foundOne THEN <<>>
                     ELSE <<Line("header", project, "", <<>>)>>
       IN  EachOneResultNoFlag(project, Tail(fileResult),
             [out |-> acc.out \o header \o
                      <<Line("match", project, oneResult.name,
                             oneResult.text)>>,
              foundOne |-> FALSE])

\* searchResults.forEach / fileResult.forEach with the foundOne flag
RECURSIVE EachOneResult(_, _, _)
EachOneResult(project, fileResult, acc) ==
  IF fileResult = <<>> THEN acc
  ELSE LET oneResult == Head(fileResult)
           header == IF acc.foundOne THEN <<>>
                     ELSE <<Line("header", project, "", <<>>)>>
       IN  EachOneResult(project, Tail(fileResult),
             [out |-> acc.out \o header \o
                      <<Line("match", project, oneResult.name,
                             oneResult.text)>>,
              foundOne |-> TRUE])

RECURSIVE EachFileResult(_, _, _)
EachFileResult(project, searchResults, acc) ==
  IF searchResults = <<>> THEN acc
  ELSE EachFileResult(project, Tail(searchResults),
         IF Len(Head(searchResults)) > 0
         THEN EachOneResult(project, Head(searchResults), acc)
         ELSE acc)

\* the report section: lines 262-278
ReportLines(project, searchResults) ==
  LET acc == EachFileResult(project, searchResults,
                            [out |-> <<>>, foundOne |-> FALSE])
  IN  IF ~acc.foundOne
      THEN acc.out \o <<Line("notfound", project, "", <<>>)>>
      ELSE acc.out

\* ------------------------------------------------- main loop
\* for (const project of projects): the loop head
LoopHead(i) == IF i > Len(projects) THEN "done" ELSE "fetch"

BreakNever(f) == FALSE

\* if (found) break
BreakLoop(f) == f

SkipNever(f) == FALSE

\* if (!found) continue
Skip(f) == ~f

ReportReadyNoWait(fp, sp) == TRUE

ReportReadyNoFinish(fp, sp) ==
  \A i \in 1..Len(sp) : sp[i].state = "fulfilled"

\* await finishPromise; await Promise.all(searchPromises)
ReportReady(fp, sp) ==
  /\ fp
  /\ \A i \in 1..Len(sp) : sp[i].state = "fulfilled"

\* tar.extract(): nothing yielded, nothing ended, nothing advanced
NewExtractor(state) ==
  [state |-> state, next |-> 1, open |-> "none", ended |-> 0,
   advances |-> <<>>]

\* lines 229-255: searchPromises = [], finishPromise, handlers, pipeline
StartExtraction ==
  /\ searchPromises' = <<>>
  /\ finishPromise' = FALSE
  /\ tarExtractor' = NewExtractor("running")
  /\ pc' = "pipeline"

\* continue / end of the loop body: the next iteration's fresh locals
NextProject ==
  /\ projIdx' = projIdx + 1
  /\ refIdx' = 1
  /\ found' = FALSE
  /\ archivedRepoResp' = NoResp
  /\ pc' = LoopHead(projIdx + 1)

\* fetchRepositoryByReference succeeds: found = true
FetchOk ==
  /\ pc = "fetch"
  /\ \E a \in Archives :
       archivedRepoResp' = [ref |-> Refs[refIdx], archive |-> a]
  /\ found' = TRUE
  /\ IF BreakLoop(TRUE)
     THEN /\ StartExtraction
          /\ log' = log \o <<Rec("request", projIdx, Refs[refIdx]),
                             Rec("ok", projIdx, Refs[refIdx]),
                             Rec("extract", projIdx, Refs[refIdx])>>
     ELSE /\ pc' = "backoffRef"
          /\ log' = log \o <<Rec("request", projIdx, Refs[refIdx]),
                             Rec("ok", projIdx, Refs[refIdx])>>
          /\ UNCHANGED <<searchPromises, finishPromise, tarExtractor>>
  /\ UNCHANGED <<searchText, projects, projIdx, refIdx, resultLog>>
  /\ UNCHANGED enumVars

\* fetchRepositoryByReference throws: logger.warn('Skipping ...')
FetchFail ==
  /\ pc = "fetch"
  /\ IF BreakLoop(found)
     THEN /\ StartExtraction
          /\ log' = log \o <<Rec("request", projIdx, Refs[refIdx]),
                             Rec("warn", projIdx, Refs[refIdx]),
                             Rec("extract", projIdx, archivedRepoResp.ref)>>
     ELSE /\ pc' = "backoffRef"
          /\ log' = log \o <<Rec("request", projIdx, Refs[refIdx]),
                             Rec("warn", projIdx, Refs[refIdx])>>
          /\ UNCHANGED <<searchPromises, finishPromise, tarExtractor>>
  /\ UNCHANGED <<searchText, projects, projIdx, refIdx, found,
                 archivedRepoResp, resultLog>>
  /\ UNCHANGED enumVars

\* await setTimeout(15000), then the next reference or the end of the loop
BackoffRef ==
  /\ pc = "backoffRef"
  /\ IF refIdx < Len(Refs)
     THEN /\ log' = log \o RetryDelay(projIdx)
          /\ refIdx' = refIdx + 1
          /\ pc' = "fetch"
          /\ UNCHANGED <<projIdx, found, archivedRepoResp, tarExtractor,
                         searchPromises, finishPromise>>
     ELSE IF Skip(found)
     THEN /\ log' = log \o RetryDelay(projIdx)
          /\ NextProject
          /\ UNCHANGED <<tarExtractor, searchPromises, finishPromise>>
     ELSE /\ log' = log \o RetryDelay(projIdx) \o
                    <<Rec("extract", projIdx, archivedRepoResp.ref)>>
          /\ StartExtraction
          /\ UNCHANGED <<projIdx, refIdx, found, archivedRepoResp>>
  /\ UNCHANGED <<searchText, projects, resultLog>>
  /\ UNCHANGED enumVars

AnyEntryIsFile(header) == TRUE

\* header?.type === 'file'
IsFile(header) == header.type = "file"

\* tarExtractor.on('entry'): a file entry launches a search, any other
\* entry is drained
OnEntry ==
  /\ pc = "pipeline"
  /\ tarExtractor.state = "running"
  /\ tarExtractor.open = "none"
  /\ tarExtractor.next <= Len(archivedRepoResp.archive)
  /\ tarExtractor.ended < tarExtractor.next
  /\ LET header == archivedRepoResp.archive[tarExtractor.next]
     IN  IF IsFile(header)
         THEN /\ searchPromises' = Append(searchPromises, NewSearch(header))
              /\ tarExtractor' = [tarExtractor EXCEPT !.open = "file"]
         ELSE /\ tarExtractor' = [tarExtractor EXCEPT !.open = "other"]
              /\ UNCHANGED searchPromises
  /\ UNCHANGED <<searchText, projects, projIdx, pc, refIdx, found,
                 archivedRepoResp, finishPromise, log, resultLog>>
  /\ UNCHANGED enumVars

\* stream.on('end', () => next()) of an entry that is not a file
OnOtherEnd ==
  /\ pc = "pipeline"
  /\ tarExtractor.state = "running"
  /\ tarExtractor.open = "other"
  /\ tarExtractor' = Advance(StreamEnded(tarExtractor))
  /\ UNCHANGED <<searchText, projects, projIdx, pc, refIdx, found,
                 archivedRepoResp, searchPromises, finishPromise, log,
                 resultLog>>
  /\ UNCHANGED enumVars

\* tarExtractor.on('finish'): finishPromiseResolver()
OnFinish ==
  /\ pc = "pipeline"
  /\ tarExtractor.state = "running"
  /\ tarExtractor.open = "none"
  /\ tarExtractor.next > Len(archivedRepoResp.archive)
  /\ tarExtractor' = [tarExtractor EXCEPT !.state = "finished"]
  /\ finishPromise' = TRUE
  /\ UNCHANGED <<searchText, projects, projIdx, pc, refIdx, found,
                 archivedRepoResp, searchPromises, log, resultLog>>
  /\ UNCHANGED enumVars

\* decompression or demultiplexing fails: the extractor is destroyed, no
\* finish event follows; the content stream of an open file entry either
\* emits 'error' (reject) or is closed without an event (still pending)
OnExtractError ==
  /\ pc = "pipeline"
  /\ tarExtractor.state = "running"
  /\ tarExtractor' = [tarExtractor EXCEPT !.state = "destroyed"]
  /\ IF tarExtractor.open = "file"
     THEN \E emitsError \in BOOLEAN :
            IF emitsError
            THEN /\ searchPromises' =
                      [searchPromises EXCEPT
                         ![Len(searchPromises)].state = "rejected"]
                 /\ log' = log \o <<Rec("error", projIdx, Cur.name)>>
            ELSE UNCHANGED <<searchPromises, log>>
     ELSE UNCHANGED <<searchPromises, log>>
  /\ UNCHANGED <<searchText, projects, projIdx, pc, refIdx, found,
                 archivedRepoResp, finishPromise, resultLog>>
  /\ UNCHANGED enumVars

\* await pipeline(...) settles: catch (e) { logger.error(e) }
PipelineSettled ==
  /\ pc = "pipeline"
  /\ tarExtractor.state \in {"finished", "destroyed"}
  /\ log' = IF tarExtractor.state = "destroyed"
            THEN log \o <<Rec("error", projIdx, "pipeline")>>
            ELSE log
  /\ pc' = "awaitFinish"
  /\ UNCHANGED <<searchText, projects, projIdx, refIdx, found,
                 archivedRepoResp, tarExtractor, searchPromises,
                 finishPromise, resultLog>>
  /\ UNCHANGED enumVars

\* await finishPromise; await Promise.all(searchPromises); the report
Report ==
  /\ pc = "awaitFinish"
  /\ ReportReady(finishPromise, searchPromises)
  /\ resultLog' = resultLog \o
       ReportLines(projIdx,
                   [i \in 1..Len(searchPromises) |-> searchPromises[i].value])
  /\ pc' = "backoffProject"
  /\ UNCHANGED <<searchText, projects, projIdx, refIdx, found,
                 archivedRepoResp, tarExtractor, searchPromises,
                 finishPromise, log>>
  /\ UNCHANGED enumVars

\* await setTimeout(15000) at the end of the loop body
BackoffProject ==
  /\ pc = "backoffProject"
  /\ log' = log \o ProjectDelay(projIdx)
  /\ NextProject
  /\ UNCHANGED <<searchText, projects, tarExtractor, searchPromises,
                 finishPromise, resultLog>>
  /\ UNCHANGED enumVars

\* the main function is suspended on finishPromise, which only the finish
\* event of a destroyed extractor could resolve: the process ends with the
\* top-level await unsettled
Abandon ==
  /\ pc = "awaitFinish"
  /\ ~finishPromise
  /\ tarExtractor.state = "destroyed"
  /\ pc' = "aborted"
  /\ UNCHANGED <<searchText, projects, projIdx, refIdx, found,
                 archivedRepoResp, tarExtractor, searchPromises,
                 finishPromise, log, resultLog>>
  /\ UNCHANGED enumVars

\* ------------------------------------------------- the hosting API
\* the project listings of a group, as the pages the API serves
ProjectListings ==
  { << <<>> >>,
    << <<1>> >>,
    << <<2>>, <<3>> >>,
    << <<3, 2>> >>,
    << <<1>>, <<2>>, <<3>> >> }

\* a tree of n groups rooted at group 1 (options.groupId)
Parents(n) ==
  {p \in [1..n -> 0..n] : p[1] = 0 /\ \A g \in 2..n : p[g] \in 1..(g - 1)}

AllWorlds ==
  UNION {[parent : Parents(n), projPages : [1..n -> ProjectListings],
          subPageSize : 1..2] : n \in 1..MaxGroups}

\* the worlds of the whole-program specification
SmallWorlds ==
  {w \in AllWorlds :
     /\ Len(w.parent) <= 2
     /\ w.subPageSize = 1
     /\ w.projPages[1] = << <<1>> >>
     /\ \A g \in 2..Len(w.parent) : w.projPages[g] = << <<>> >>}

\* the direct subgroups of g, as the API lists them
Children(w, g) ==
  SelectSeq([i \in 1..Len(w.parent) |-> i], LAMBDA c : w.parent[c] = g)

RECURSIVE Paginate(_, _)
Paginate(list, size) ==
  IF Len(list) <= size THEN <<list>>
  ELSE <<SubSeq(list, 1, size)>> \o
       Paginate(SubSeq(list, size + 1, Len(list)), size)

SubPages(w, g) == Paginate(Children(w, g), w.subPageSize)

\* one response: the JSON array and the x-next-page header (0: none)
Page(listing, page) ==
  [items |-> listing[page],
   next |-> IF page < Len(listing) THEN page + 1 ELSE 0]

\* ------------------------------------------------- enumeration
ListRec(kind, group, page, ok, items) ==
  [kind |-> kind, group |-> group, page |-> page, ok |-> ok,
   items |-> items]

ThrowsNever(ok) == FALSE

\* if (!response.ok) throw new Error(...)
Throws(ok) == ~ok

HasNextNever(nextPage) == FALSE

\* if (nextPage)
HasNext(nextPage) == nextPage # 0

\* respJson.concat(nextPageResponse)
ConcatPage(respJson, nextPageResponse) == respJson \o nextPageResponse

\* the value the recursion over the pages returns
RECURSIVE ConcatPages(_)
ConcatPages(pages) ==
  IF pages = <<>> THEN <<>>
  ELSE ConcatPage(Head(pages), ConcatPages(Tail(pages)))

ConcatSubReversed(projs, subgroupProjects) == subgroupProjects \o projs

ConcatSubDropping(projs, subgroupProjects) == subgroupProjects

\* projects = projects.concat(subgroupProjects)
ConcatSub(projs, subgroupProjects) == projs \o subgroupProjects

\* a call of fetchAllProjectRecursive(groupId)
NewFrame(groupId) ==
  [group |-> groupId, phase |-> "projects", page |-> 1, pages |-> <<>>,
   projects |-> <<>>, subgroups |-> <<>>, child |-> 0]

Top == stack[Len(stack)]

\* one request of a paginated listing and what the caller does with the
\* response: throw, ask for the next page, or return the concatenation
ListStep(kind, listing) ==
  \E ok \in BOOLEAN :
    IF Throws(ok)
    THEN /\ pc' = "enumFailed"
         /\ listLog' = Append(listLog,
                              ListRec(kind, Top.group, Top.page, FALSE, <<>>))
         /\ UNCHANGED stack
    ELSE LET resp == IF ok THEN Page(listing, Top.page)
                     ELSE [items |-> <<>>, next |-> 0]
             pages == Append(Top.pages, resp.items)
             n == Len(stack)
         IN  /\ listLog' = Append(listLog,
                             ListRec(kind, Top.group, Top.page, ok,
                                     resp.items))
             /\ pc' = pc
             /\ IF HasNext(resp.next)
                THEN stack' = [stack EXCEPT ![n].page = resp.next,
                                            ![n].pages = pages]
                ELSE IF kind = "projects"
                THEN stack' = [stack EXCEPT
                                 ![n].projects = ConcatPages(pages),
                                 ![n].phase = "subgroups",
                                 ![n].page = 1,
                                 ![n].pages = <<>>]
                ELSE stack' = [stack EXCEPT
                                 ![n].subgroups = ConcatPages(pages),
                                 ![n].phase = "children",
                                 ![n].page = 1,
                                 ![n].pages = <<>>]

\* fetchProjectsUnderGroup(groupId, page)
ListProjects ==
  /\ pc = "enumerate"
  /\ Top.phase = "projects"
  /\ ListStep("projects", world.projPages[Top.group])
  /\ UNCHANGED <<searchText, projects, projIdx, refIdx, found,
                 archivedRepoResp, tarExtractor, searchPromises,
                 finishPromise, log, resultLog, world, cacheFile,
                 cacheWrites>>

\* fetchSubgroupByGroupId(groupId, page)
ListSubgroups ==
  /\ pc = "enumerate"
  /\ Top.phase = "subgroups"
  /\ ListStep("subgroups", SubPages(world, Top.group))
  /\ UNCHANGED <<searchText, projects, projIdx, refIdx, found,
                 archivedRepoResp, tarExtractor, searchPromises,
                 finishPromise, log, resultLog, world, cacheFile,
                 cacheWrites>>

\* for (const subgroup of subgroups): fetchAllProjectRecursive(subgroup.id)
Descend ==
  /\ pc = "enumerate"
  /\ Top.phase = "children"
  /\ Top.child < Len(Top.subgroups)
  /\ stack' = Append([stack EXCEPT ![Len(stack)].child = @ + 1],
                     NewFrame(Top.subgroups[Top.child + 1]))
  /\ UNCHANGED <<mainVars, world, listLog, cacheFile, cacheWrites>>

\* return projects: to the calling fetchAllProjectRecursive, or to main
Return ==
  /\ pc = "enumerate"
  /\ Top.phase = "children"
  /\ Top.child = Len(Top.subgroups)
  /\ listLog' = Append(listLog,
                       ListRec("return", Top.group, 0, TRUE, Top.projects))
  /\ IF Len(stack) > 1
     THEN /\ stack' = [SubSeq(stack, 1, Len(stack) - 1) EXCEPT
                         ![Len(stack) - 1].projects =
                            ConcatSub(@, Top.projects)]
          /\ UNCHANGED <<projects, pc>>
     ELSE /\ stack' = <<>>
          /\ projects' = Top.projects
          /\ pc' = "writeCache"
  /\ UNCHANGED <<searchText, projIdx, refIdx, found, archivedRepoResp,
                 tarExtractor, searchPromises, finishPromise, log,
                 resultLog, world, cacheFile, cacheWrites>>

\* ------------------------------------------------- project list cache
Array(items) == [kind |-> "array", items |-> items]

NoFile == [kind |-> "absent", items |-> <<>>]

\* what projects.json may hold when the tool starts
CacheStates ==
  {NoFile, [kind |-> "invalid", items |-> <<>>],
   [kind |-> "object", items |-> <<>>]} \cup
  {Array([i \in 1..n |-> i]) : n \in 0..MaxProjects}

\* projects = JSON.parse(await readFile('projects.json')), [] when it throws
ParseCache(c) ==
  IF c.kind \in {"absent", "invalid"} THEN [isArray |-> TRUE, items |-> <<>>]
  ELSE IF c.kind = "object" THEN [isArray |-> FALSE, items |-> <<>>]
  ELSE [isArray |-> TRUE, items |-> c.items]

AlwaysEnumerate(parsed) == TRUE

\* if (!Array.isArray(projects) || projects.length === 0)
NeedsEnumeration(parsed) == ~parsed.isArray \/ Len(parsed.items) = 0

\* lines 185-193: read the cache, use it or start the enumeration
Startup ==
  /\ pc = "start"
  /\ LET parsed == ParseCache(cacheFile)
     IN  IF NeedsEnumeration(parsed)
         THEN /\ projects' = <<>>
              /\ stack' = <<NewFrame(1)>>
              /\ pc' = "enumerate"
         ELSE /\ projects' = parsed.items
              /\ stack' = <<>>
              /\ pc' = IF parsed.items = <<>> THEN "done" ELSE "fetch"
  /\ UNCHANGED <<searchText, projIdx, refIdx, found, archivedRepoResp,
                 tarExtractor, searchPromises, finishPromise, log,
                 resultLog, world, listLog, cacheFile, cacheWrites>>

\* await writeFile('projects.json', JSON.stringify(projects))
WriteCache ==
  /\ pc = "writeCache"
  /\ cacheFile' = Array(projects)
  /\ cacheWrites' = cacheWrites + 1
  /\ pc' = LoopHead(1)
  /\ UNCHANGED <<searchText, projects, projIdx, refIdx, found,
                 archivedRepoResp, tarExtractor, searchPromises,
                 finishPromise, log, resultLog, world, stack, listLog>>

Init ==
  /\ searchText \in TargetLists
  /\ projects = <<>>
  /\ projIdx = 1
  /\ pc = "start"
  /\ world \in SmallWorlds
  /\ stack = <<>>
  /\ listLog = <<>>
  /\ cacheFile \in CacheStates
  /\ cacheWrites = 0
  /\ refIdx = 1
  /\ found = FALSE
  /\ archivedRepoResp = NoResp
  /\ tarExtractor = NewExtractor("idle")
  /\ searchPromises = <<>>
  /\ finishPromise = FALSE
  /\ log = <<>>
  /\ resultLog = <<>>

Next ==
  \/ Startup
  \/ ListProjects
  \/ ListSubgroups
  \/ Descend
  \/ Return
  \/ WriteCache
  \/ FetchOk
  \/ FetchFail
  \/ BackoffRef
  \/ OnEntry
  \/ OnOtherEnd
  \/ OnLine
  \/ OnClose
  \/ OnEnd
  \/ OnFinish
  \/ OnExtractError
  \/ PipelineSettled
  \/ Report
  \/ BackoffProject
  \/ Abandon

Spec == Init /\ [][Next]_vars

\* ------------------------------------------------- search specification
\* one file entry of one project, its search just launched
SearchInit ==
  /\ searchText \in TargetLists
  /\ world \in SmallWorlds /\ Len(world.parent) = 1
  /\ stack = <<>>
  /\ listLog = <<>>
  /\ cacheFile = Array(<<1>>)
  /\ cacheWrites = 0
  /\ projects = <<1>>
  /\ projIdx = 1
  /\ pc = "pipeline"
  /\ refIdx = 1
  /\ found = TRUE
  /\ \E f \in Files :
       /\ archivedRepoResp =
            [ref |-> "main",
             archive |-> <<[type |-> "file", name |-> "f1", lines |-> f]>>]
       /\ searchPromises =
            <<NewSearch([type |-> "file", name |-> "f1", lines |-> f])>>
  /\ tarExtractor = [NewExtractor("running") EXCEPT !.open = "file"]
  /\ finishPromise = FALSE
  /\ log = <<>>
  /\ resultLog = <<>>

SearchNext == OnLine \/ OnClose \/ OnEnd

SearchSpec == SearchInit /\ [][SearchNext]_vars

\* ------------------------------------------------- extraction specification
\* archives with a file longer than what its search reads
LongArchives ==
  { <<File("f1", <<<<"a">>, <<"x">>, <<"b">>, <<"a", "b">>>>),
      Other("directory", "d"), File("f2", <<<<"x">>, <<"a">>>>)>>,
    <<File("f1", <<<<"a", "b">>, <<"x">>, <<"x">>>>),
      File("f2", <<<<"b">>, <<"b">>, <<"a">>>>),
      File("f3", <<<<"x">>>>)>> }

\* one downloaded archive piped into the extractor, no failure of the
\* download, of the decompression or of the archive format
ExtractInit ==
  /\ searchText \in TargetLists
  /\ world \in SmallWorlds /\ Len(world.parent) = 1
  /\ stack = <<>>
  /\ listLog = <<>>
  /\ cacheFile = Array(<<1>>)
  /\ cacheWrites = 0
  /\ projects = <<1>>
  /\ projIdx = 1
  /\ pc = "pipeline"
  /\ refIdx = 1
  /\ found = TRUE
  /\ \E a \in Archives \cup LongArchives :
       archivedRepoResp = [ref |-> "main", archive |-> a]
  /\ searchPromises = <<>>
  /\ tarExtractor = NewExtractor("running")
  /\ finishPromise = FALSE
  /\ log = <<Rec("request", 1, "main"), Rec("ok", 1, "main"),
             Rec("extract", 1, "main")>>
  /\ resultLog = <<>>

ExtractNext ==
  \/ OnEntry
  \/ OnOtherEnd
  \/ OnLine
  \/ OnClose
  \/ OnEnd
  \/ OnFinish
  \/ PipelineSettled
  \/ Report

\* the event loop runs every callback that is ready: a flowing stream
\* delivers its next chunk and its end, the extractor yields the next entry
\* once advanced, a settled promise resumes the function awaiting it
ExtractFairness ==
  /\ WF_vars(OnEntry)
  /\ WF_vars(OnOtherEnd)
  /\ WF_vars(OnLine)
  /\ WF_vars(OnClose)
  /\ WF_vars(OnEnd)
  /\ WF_vars(OnFinish)
  /\ WF_vars(PipelineSettled)
  /\ WF_vars(Report)

ExtractSpec == ExtractInit /\ [][ExtractNext]_vars /\ ExtractFairness

\* ------------------------------------------------- enumeration specification
\* fetchAllProjectRecursive(options.groupId) over every world
EnumInit ==
  /\ searchText = <<Alpha>>
  /\ projects = <<>>
  /\ projIdx = 1
  /\ pc = "enumerate"
  /\ refIdx = 1
  /\ found = FALSE
  /\ archivedRepoResp = NoResp
  /\ tarExtractor = NewExtractor("idle")
  /\ searchPromises = <<>>
  /\ finishPromise = FALSE
  /\ log = <<>>
  /\ resultLog = <<>>
  /\ world \in AllWorlds
  /\ stack = <<NewFrame(1)>>
  /\ listLog = <<>>
  /\ cacheFile = NoFile
  /\ cacheWrites = 0

EnumNext == ListProjects \/ ListSubgroups \/ Descend \/ Return

EnumSpec == EnumInit /\ [][EnumNext]_vars

\* ================================================================ claims
Searches == 1..Len(searchPromises)

ReportOf(p) == SelectSeq(resultLog, LAMBDA l : l.project = p)

LogIdx(kind, p) ==
  {i \in 1..Len(log) : log[i].kind = kind /\ log[i].project = p}

RunOver == pc \in {"done", "aborted"}

\* every target occurs in one of the first n lines of the search's file
AllMatchedWithin(s, n) ==
  /\ searchText # <<>>
  /\ \A t \in Range(searchText) :
       \E i \in 1..n : Includes(s.lines[i], t)

ExampleFile == << <<"a">>, <<"a", "b">>, <<"x">>, <<"x">>, <<"b">> >>

\* C1: once every target has matched in a file no later line of the file
\* is tested; targets [alpha, beta] over the example file give exactly
\* [(file, alpha), (file, beta)]
C1_NoLineAfterAllMatched ==
  \A k \in Searches :
    LET s == searchPromises[k]
    IN  /\ \A n \in s.tested : ~AllMatchedWithin(s, n - 1)
        /\ (/\ searchText = <<Alpha, Beta>>
            /\ s.lines = ExampleFile
            /\ s.state = "fulfilled")
           => s.found = <<[name |-> s.name, text |-> Alpha],
                          [name |-> s.name, text |-> Beta]>>

\* C2: the result of a search holds at most one record per target
C2_AtMostOneRecordPerTarget ==
  \A k \in Searches :
    \A t \in Targets :
      Cardinality({i \in 1..Len(searchPromises[k].found) :
                     searchPromises[k].found[i].text = t}) <= 1

\* C3: the targets in the result of a search are exactly the targets that
\* occur in some line of the file, and every record names that file
C3_ResultTargetsAreFileTargets ==
  \A k \in Searches :
    LET s == searchPromises[k]
    IN  s.state = "fulfilled" =>
          /\ {s.found[i].text : i \in 1..Len(s.found)} =
               {t \in Range(searchText) :
                  \E i \in 1..Len(s.lines) : Includes(s.lines[i], t)}
          /\ \A i \in 1..Len(s.found) : s.found[i].name = s.name

\* C4: a failed extraction of one project does not keep the run from
\* reaching the remaining projects: when the run is over, an archive has
\* been requested for every project
C4_ExtractionFailureDoesNotStopRun ==
  RunOver => \A p \in 1..Len(projects) : LogIdx("request", p) # {}

\* C5: a read error on one file's content stream is confined to that file:
\* the run does not end abnormally on it
C5_StreamErrorConfinedToFile ==
  \A k \in Searches :
    searchPromises[k].state = "rejected" => pc # "aborted"

\* C6: a project's result lines are emitted only after the finish event
\* and after every launched search has settled, and hold every match of
\* every file of the project
C6_ReportAfterFinishAndSearches ==
  \A p \in 1..Len(projects) :
    ReportOf(p) # <<>> =>
      /\ p <= projIdx
      /\ p = projIdx =>
           /\ finishPromise
           /\ tarExtractor.state = "finished"
           /\ \A k \in Searches : searchPromises[k].state # "pending"
           /\ LET m == Flatten([k \in Searches |-> searchPromises[k].found])
                  r == SelectSeq(ReportOf(p), LAMBDA l : l.kind = "match")
              IN  /\ Len(r) = Len(m)
                  /\ \A i \in 1..Len(m) :
                       r[i].name = m[i].name /\ r[i].text = m[i].text

C6_Witness ==
  /\ pc = "backoffProject"
  /\ Len(searchPromises) >= 2
  /\ \A k \in Searches : searchPromises[k].found # <<>>
  /\ ReportOf(projIdx) # <<>>

\* C7: the references are requested in order, the first success is the
\* archive extracted and ends the requests of the project, and every
\* failed attempt logs one warning followed by one delay
C7_ReferencesInOrderFirstSuccessWins ==
  /\ \A p \in 1..Len(projects) :
       LET r == SelectSeq(log, LAMBDA e : e.kind = "request" /\ e.project = p)
       IN  /\ Len(r) <= Len(Refs)
           /\ \A i \in 1..Len(r) : r[i].ref = Refs[i]
  /\ \A i \in 1..Len(log) :
       /\ log[i].kind = "request" =>
            /\ i < Len(log)
            /\ log[i + 1].kind \in {"ok", "warn"}
            /\ log[i + 1].project = log[i].project
            /\ log[i + 1].ref = log[i].ref
       /\ log[i].kind = "warn" =>
            /\ i > 1 /\ log[i - 1].kind = "request"
            /\ IF i < Len(log) THEN log[i + 1].kind = "delay"
               ELSE pc = "backoffRef"
            /\ i + 1 < Len(log) => log[i + 2].kind # "delay"
       /\ log[i].kind = "ok" =>
            /\ i > 1 /\ log[i - 1].kind = "request"
            /\ \A j \in (i + 1)..Len(log) :
                 ~(log[j].kind = "request" /\ log[j].project = log[i].project)
            /\ i < Len(log)
            /\ log[i + 1] = Rec("extract", log[i].project, log[i].ref)
            /\ log[i].project = projIdx => archivedRepoResp.ref = log[i].ref

C7_Witness ==
  /\ pc = "pipeline"
  /\ archivedRepoResp.ref = "master"
  /\ SelectSeq(log, LAMBDA e : e.project = projIdx) =
       <<Rec("request", projIdx, "main"), Rec("warn", projIdx, "main"),
         Rec("delay", projIdx, ""), Rec("request", projIdx, "master"),
         Rec("ok", projIdx, "master"), Rec("extract", projIdx, "master")>>

Skipped(p) == Cardinality(LogIdx("warn", p)) = Len(Refs)

\* C8: a project all of whose references fail is skipped: no extraction,
\* no result line, and the loop goes on to the next project
C8_AllRefsFailSkipsProject ==
  \A p \in 1..Len(projects) :
    Skipped(p) =>
      /\ LogIdx("extract", p) = {}
      /\ ReportOf(p) = <<>>
      /\ projIdx >= p
      /\ projIdx = p => pc = "backoffRef"
      /\ (projIdx > p /\ p < Len(projects)) =>
           \/ LogIdx("request", p + 1) # {}
           \/ (projIdx = p + 1 /\ pc = "fetch")
      /\ (projIdx > p /\ p = Len(projects)) => pc = "done"

C8_Witness ==
  /\ Len(projects) >= 2
  /\ Skipped(1)
  /\ LogIdx("request", 2) # {}

\* C9: between any two consecutive archive requests of a run there is a
\* backoff delay, after a processed project as well as after a skipped one
C9_DelayBetweenRequests ==
  \A i, j \in 1..Len(log) :
    (i < j /\ log[i].kind = "request" /\ log[j].kind = "request") =>
      \E k \in (i + 1)..(j - 1) : log[k].kind = "delay"

C9_Witness ==
  /\ ReportOf(1) # <<>>
  /\ LogIdx("request", 2) # {}

\* C10: a report is one not-found line when the flattened match list is
\* empty, otherwise one header line followed by one line per record, in
\* aggregation order
C10_ReportShape ==
  \A p \in 1..Len(projects) :
    /\ ReportOf(p) # <<>> =>
         \/ ReportOf(p) = <<Line("notfound", p, "", <<>>)>>
         \/ /\ Len(ReportOf(p)) >= 2
            /\ ReportOf(p)[1] = Line("header", p, "", <<>>)
            /\ \A i \in 2..Len(ReportOf(p)) : ReportOf(p)[i].kind = "match"
    /\ (p = projIdx /\ pc = "backoffProject") =>
         LET m == Flatten([k \in Searches |-> searchPromises[k].found])
         IN  ReportOf(p) =
               IF m = <<>> THEN <<Line("notfound", p, "", <<>>)>>
               ELSE <<Line("header", p, "", <<>>)>> \o
                    [i \in 1..Len(m) |->
                       Line("match", p, m[i].name, m[i].text)]

C10_Witness ==
  /\ ReportOf(1) = <<Line("notfound", 1, "", <<>>)>>
  /\ Len(ReportOf(2)) >= 3
  /\ pc = "backoffProject"

InExtraction == pc \in {"pipeline", "awaitFinish", "backoffProject", "aborted"}

\* the entries the extractor has yielded so far
Yielded ==
  IF tarExtractor.open # "none" THEN tarExtractor.next
  ELSE tarExtractor.next - 1

\* C11: a search is launched for exactly the file entries yielded, once
\* each and in archive order; an entry of another type launches no search
C11_SearchPerFileEntry ==
  InExtraction =>
    LET files == SelectSeq(SubSeq(archivedRepoResp.archive, 1, Yielded),
                           LAMBDA h : h.type = "file")
    IN  /\ Len(searchPromises) = Len(files)
        /\ \A k \in Searches :
             /\ searchPromises[k].name = files[k].name
             /\ searchPromises[k].lines = files[k].lines
        /\ tarExtractor.open # "none" =>
             (tarExtractor.open = "file" <=>
                archivedRepoResp.archive[tarExtractor.next].type = "file")

C11_Witness ==
  /\ pc = "awaitFinish"
  /\ finishPromise
  /\ Len(archivedRepoResp.archive) = 3
  /\ archivedRepoResp.archive[1].type = "directory"
  /\ Len(searchPromises) = 2

ReturnIdx(g) ==
  {i \in 1..Len(listLog) : listLog[i].kind = "return" /\ listLog[i].group = g}

\* the value fetchAllProjectRecursive(g) returned
RetOf(g) == listLog[CHOOSE i \in ReturnIdx(g) : TRUE].items

\* C12: fetchAllProjectRecursive(g) returns the direct projects of g
\* followed by the results of its subgroups in listing order
C12_DirectThenSubgroupsInOrder ==
  \A g \in 1..Len(world.parent) :
    ReturnIdx(g) # {} =>
      LET direct == Flatten(world.projPages[g])
          subs == Children(world, g)
      IN  /\ Cardinality(ReturnIdx(g)) = 1
          /\ \A i \in 1..Len(subs) : ReturnIdx(subs[i]) # {}
          /\ RetOf(g) =
               direct \o Flatten([i \in 1..Len(subs) |-> RetOf(subs[i])])
          /\ subs = <<>> => RetOf(g) = direct

C12_Witness ==
  /\ pc = "writeCache"
  /\ Children(world, 1) = <<2, 3>>
  /\ projects = <<1, 2, 3, 3, 2>>

Requests(kind, g) ==
  SelectSeq(listLog, LAMBDA r : r.kind = kind /\ r.group = g)

\* the requests of one listing are its pages 1, 2, ... in order, each
\* answered with that page
PagesInOrder(kind, g, listing) ==
  LET r == Requests(kind, g)
  IN  /\ Len(r) <= Len(listing)
      /\ \A i \in 1..Len(r) :
           /\ r[i].page = i
           /\ r[i].ok => r[i].items = listing[i]
           /\ i < Len(r) => r[i].ok

\* C13: a listing of k pages takes exactly k requests, one per page, and
\* yields the items of page 1, then page 2, ..., then page k
C13_PaginationInPageOrder ==
  /\ \A g \in 1..Len(world.parent) :
       /\ PagesInOrder("projects", g, world.projPages[g])
       /\ PagesInOrder("subgroups", g, SubPages(world, g))
  /\ \A d \in 1..Len(stack) :
       LET f == stack[d]
       IN  /\ f.phase # "projects" =>
                /\ Len(Requests("projects", f.group)) =
                     Len(world.projPages[f.group])
                /\ SubSeq(f.projects, 1,
                          Len(Flatten(world.projPages[f.group]))) =
                     Flatten(world.projPages[f.group])
           /\ f.phase = "children" =>
                /\ Len(Requests("subgroups", f.group)) =
                     Len(SubPages(world, f.group))
                /\ f.subgroups = Flatten(SubPages(world, f.group))

C13_Witness ==
  /\ pc = "enumerate"
  /\ Len(stack) = 1
  /\ Top.phase = "subgroups"
  /\ Len(Requests("projects", 1)) = 3
  /\ Top.projects = <<1, 2, 3>>

ListingFailed == \E i \in 1..Len(listLog) : ~listLog[i].ok

\* C14: a failed listing request aborts the enumeration: no project list,
\* no cache write, no archive request
C14_EnumerationAllOrNothing ==
  ListingFailed =>
    /\ pc = "enumFailed"
    /\ projects = <<>>
    /\ cacheWrites = 0
    /\ log = <<>>
    /\ resultLog = <<>>

C14_Witness ==
  /\ pc = "enumFailed"
  /\ Len(stack) = 2
  /\ Len(listLog) >= 3

CacheHit ==
  /\ cacheWrites = 0
  /\ cacheFile.kind = "array"
  /\ cacheFile.items # <<>>

\* C15: a non-empty cached array is used as it is, with no listing request
\* and no write; otherwise the enumeration runs once and its result is
\* written once before any archive is requested
C15_CacheShortCircuitsEnumeration ==
  /\ cacheWrites <= 1
  /\ CacheHit =>
       /\ listLog = <<>>
       /\ pc # "start" => projects = cacheFile.items
  /\ (~CacheHit /\ pc # "start") =>
       /\ pc \in {"enumerate", "enumFailed", "writeCache"} \/ cacheWrites = 1
       /\ Cardinality(ReturnIdx(1)) <= 1
       /\ Len(SelectSeq(Requests("projects", 1), LAMBDA r : r.page = 1)) <= 1
  /\ cacheWrites = 1 =>
       /\ ReturnIdx(1) # {}
       /\ projects = RetOf(1)
       /\ cacheFile = Array(projects)
  /\ log # <<>> => (CacheHit \/ cacheWrites = 1)

C15_Witness ==
  /\ cacheWrites = 1
  /\ cacheFile = Array(<<1>>)
  /\ LogIdx("request", 1) # {}

\* the (line, target) pairs of a search's file where the line has the target
HitPairs(s) ==
  {h \in (1..Len(s.lines)) \X Range(searchText) :
     Includes(s.lines[h[1]], h[2])}

\* C16: at end-of-stream the search resolves, never rejects, with the
\* records collected so far; with no target in any line it resolves with
\* the empty list
C16_EndOfStreamResolvesWithFound ==
  \A k \in Searches :
    LET s == searchPromises[k]
    IN  /\ s.state # "rejected"
        /\ tarExtractor.ended >= k => s.state = "fulfilled"
        /\ s.state = "fulfilled" =>
             /\ s.value = s.found
             /\ \A i \in 1..Len(s.value) :
                  /\ s.value[i].name = s.name
                  /\ \E h \in HitPairs(s) : h[2] = s.value[i].text
             /\ HitPairs(s) = {} => s.value = <<>>
             /\ s.foundNum # Len(searchText) =>
                  Len(s.value) = Cardinality(HitPairs(s))

C16_Witness ==
  /\ searchText = <<Alpha, AlphaBeta>>
  /\ Cur.state = "fulfilled"
  /\ Len(Cur.lines) = 3
  /\ Cur.value = <<[name |-> "f1", text |-> Alpha]>>

\* C17: projects are processed one at a time in list order: a project is
\* requested only after the one before it was reported or skipped, with no
\* extraction or search of it left in flight
C17_ProjectsOneAtATime ==
  /\ \A i, j \in 1..Len(log) : i < j => log[i].project <= log[j].project
  /\ \A i, j \in 1..Len(resultLog) :
       i < j => resultLog[i].project <= resultLog[j].project
  /\ \A i \in 1..Len(log) : log[i].project <= projIdx
  /\ \A p \in 2..Len(projects) :
       LogIdx("request", p) # {} =>
         (Skipped(p - 1) \/ ReportOf(p - 1) # <<>>)
  /\ pc \in {"fetch", "backoffRef", "done"} =>
       /\ tarExtractor.state \in {"idle", "finished"}
       /\ tarExtractor.open = "none"
       /\ \A k \in Searches : searchPromises[k].state = "fulfilled"

C17_Witness ==
  /\ pc = "pipeline"
  /\ projIdx = 2
  /\ tarExtractor.open = "file"
  /\ Len(ReportOf(1)) >= 2

\* C18: started with no search string, the tool fetches, extracts and
\* reports nothing
C18_NoSearchStringsNoWork ==
  searchText = <<>> => (log = <<>> /\ resultLog = <<>>)

Count(seq, x) == Cardinality({i \in 1..Len(seq) : seq[i] = x})

NoDup(seq) == \A i, j \in 1..Len(seq) : i # j => seq[i] # seq[j]

\* every project the API lists under a group of the tree, once per listing
AllListed ==
  Flatten([g \in 1..Len(world.parent) |-> Flatten(world.projPages[g])])

\* C19 as stated: whatever the listing responses, the enumerated list has
\* no project id twice
C19_OneEntryPerProjectId ==
  pc = "writeCache" => NoDup(projects)

\* C19 as amended: the enumerated list has one entry for every time a
\* project is listed, so one entry per project id when no id is listed twice
C19_OneEntryPerListing ==
  pc = "writeCache" =>
    /\ \A id \in Range(AllListed) \cup Range(projects) :
         Count(projects, id) = Count(AllListed, id)
    /\ NoDup(AllListed) =>
         (NoDup(projects) /\ Range(projects) = Range(AllListed))

C19_Witness ==
  /\ pc = "writeCache"
  /\ Len(world.parent) = 3
  /\ NoDup(AllListed)
  /\ Len(projects) = 3

\* C20: without an extraction error, advance is called once per yielded
\* entry, in order, and only when that entry's stream has ended; an entry
\* is open only when every entry before it has ended and been advanced
C20_AdvanceOncePerEntryAfterEnd ==
  tarExtractor.state # "destroyed" =>
    /\ tarExtractor.advances = [i \in 1..tarExtractor.ended |-> i]
    /\ tarExtractor.next = tarExtractor.ended + 1
    /\ Yielded <= tarExtractor.ended + 1
    /\ (InExtraction /\ tarExtractor.state = "finished") =>
         tarExtractor.ended = Len(archivedRepoResp.archive)

C20_Witness ==
  /\ pc = "awaitFinish"
  /\ tarExtractor.state = "finished"
  /\ tarExtractor.advances = <<1, 2, 3>>

\* the most entries an archive holds
MaxEntries ==
  CHOOSE n \in {Len(a) : a \in Archives \cup LongArchives} :
    \A a \in Archives \cup LongArchives : Len(a) <= n

FileEntries ==
  {i \in 1..Len(archivedRepoResp.archive) :
     archivedRepoResp.archive[i].type = "file"}

\* the archive position of the entry the k-th search reads
EntryOf(k) ==
  CHOOSE i \in FileEntries : Cardinality({j \in FileEntries : j <= i}) = k

\* search k has closed its line reader with content of its entry unread
ClosedEarly(k) ==
  /\ k \in Searches
  /\ searchPromises[k].state = "pending"
  /\ searchPromises[k].rlClosed
  /\ searchPromises[k].pos < Len(searchPromises[k].lines)

\* the entry of search k was read to its end, advance was invoked for it
\* and the promise is resolved
DrainedAndResolved(k) ==
  /\ k \in Searches
  /\ searchPromises[k].pos = Len(searchPromises[k].lines)
  /\ searchPromises[k].state = "fulfilled"
  /\ tarExtractor.ended >= EntryOf(k)
  /\ EntryOf(k) \in Range(tarExtractor.advances)

\* every entry of the archive was yielded and the finish event has fired
AllYieldedAndFinished ==
  /\ Yielded = Len(archivedRepoResp.archive)
  /\ Len(searchPromises) = Cardinality(FileEntries)
  /\ tarExtractor.state = "finished"
  /\ finishPromise

\* C21: in an error-free extraction, a search that closes its line reader
\* before the end of the file still has the rest of its entry drained: the
\* entry's stream ends, advance is invoked and the promise resolves; every
\* later entry is then yielded and the finish event fires
C21_EarlyCloseNeverStalls ==
  \A k \in 1..MaxEntries :
    /\ ClosedEarly(k) ~> DrainedAndResolved(k)
    /\ ClosedEarly(k) ~> AllYieldedAndFinished

C21_Witness ==
  /\ AllYieldedAndFinished
  /\ \E k \in Searches :
       /\ k < Len(searchPromises)
       /\ DrainedAndResolved(k)
       /\ searchPromises[k].tested # 1..Len(searchPromises[k].lines)
       /\ Len(searchPromises[k].lines) - Cardinality(searchPromises[k].tested) >= 2

\* search k is the last one launched and its entry is still open
StillReading(k) ==
  /\ k = Len(searchPromises)
  /\ tarExtractor.open = "file"

\* C22: the file searches of a project never overlap. Every search but the
\* one whose entry is open has settled by resolving, so the promises settle
\* in launch order and a search reads its first line only after every
\* earlier one settled; a settled search and every search before the last
\* one never changes again, so its match list is final; and when the finish
\* event has fired every launched search has settled
C22_SearchesNeverOverlap ==
  /\ [](\A k \in Searches :
          /\ ~StillReading(k) =>
               (tarExtractor.state = "destroyed" \/
                  searchPromises[k].state = "fulfilled")
          /\ k < Len(searchPromises) =>
               /\ searchPromises[k].state = "fulfilled"
               /\ searchPromises[k].value = searchPromises[k].found
          /\ \A j \in 1..(k - 1) :
               searchPromises[k].state # "pending" =>
                 searchPromises[j].state # "pending"
          /\ finishPromise => searchPromises[k].state = "fulfilled")
  /\ [][\A k \in Searches :
          (k \in 1..Len(searchPromises') /\
             (k < Len(searchPromises') \/
                searchPromises[k].state # "pending")) =>
            searchPromises'[k] = searchPromises[k]]_vars

C22_Witness ==
  /\ Len(searchPromises) = 2
  /\ StillReading(2)
  /\ searchPromises[2].state = "pending"
  /\ searchPromises[2].tested # {}
  /\ searchPromises[1].state = "fulfilled"
  /\ Len(searchPromises[1].value) = 2

====
